---- MODULE Spec2Model ----
(***************************************************************************)
(* Take semantics of the `owned` crate: DerefTake (dereftake.rs), Take     *)
(* (take.rs) and IntoOwned (intoowned.rs), over the container kinds the    *)
(* crate implements them for.                                              *)
(*                                                                         *)
(* One container is constructed, then taken from through one of the public *)
(* operations.  A take is followed step by step: the entry of the          *)
(* operation up to the invocation of the closure, the closure's own steps  *)
(* (moving the payload out, returning, panicking), and the end of the      *)
(* operation's scope, where the shell local is dropped.  Every payload     *)
(* element is an object with a destructor counter; every heap allocation   *)
(* has a status and a deallocation counter.                                *)
(*                                                                         *)
(* Rc handles are strong owners; the crate never creates Weak references   *)
(* and none are modelled.  Payload types are assumed not to be zero-sized. *)
(***************************************************************************)
EXTENDS Integers, Sequences, FiniteSets, TLC

\* Longest slice / vector payload.
MaxLen == 2
\* Largest number of Rc handles ever created for one allocation.
MaxOwners == 3
\* Payload values are drawn from 1..MaxVal.
MaxVal == 2

Vals == 1..MaxVal
Max(a, b) == IF a > b THEN a ELSE b
ObjIds == 1..Max(MaxLen, MaxOwners)
AllocIds == 1..Max(2, MaxOwners)
Handles == 1..MaxOwners

\* Container kinds: a plain value T, ManuallyDrop<T>, Box<T>, Box<[T]>,
\* Vec<T> and Rc<T>.
Kinds == {"T", "ManuallyDrop", "Box", "BoxSlice", "Vec", "Rc"}
IsSlice(k) == k \in {"BoxSlice", "Vec"}

\* The payloads a container of kind k can be built around.
Payloads(k) ==
    IF IsSlice(k) THEN UNION {[1..n -> Vals] : n \in 0..MaxLen}
    ELSE [1..1 -> Vals]

\* A Vec's capacity is at least its length.
Caps(k, p) == IF k = "Vec" THEN Len(p)..MaxLen ELSE {0}

\* Whether the container owns a heap allocation: a Box or Rc of a non-zero-sized
\* value does, a boxed slice does unless empty, a Vec does once its capacity
\* is not zero; a plain value or a ManuallyDrop lives on the stack.
HasStorage(k, p, c) ==
    CASE k \in {"Box", "Rc"} -> TRUE
      [] k = "BoxSlice" -> Len(p) > 0
      [] k = "Vec" -> c > 0
      [] OTHER -> FALSE

\* The operations, and the kinds the trait impls and bounds admit them for.
DerefTakeKinds == {"ManuallyDrop", "Box", "BoxSlice", "Vec", "Rc"}
TakeKinds == {"T", "ManuallyDrop", "Box", "BoxSlice", "Vec"}
TakeSizedKinds == {"T", "ManuallyDrop", "Box"}

\* What a caller's closure does with the view it is handed.
CallerModes == {"into_owned", "noop", "panic_before", "panic_partial", "panic_after"}

NoValue == [has |-> FALSE, objs |-> <<>>, buf |-> 0]
NoResult == [state |-> "none", objs |-> <<>>, buf |-> 0]
NoCall == [h |-> 0, api |-> "none", mode |-> "none", k |-> 0, view |-> <<>>,
           alloc |-> 0, suppressed |-> FALSE, strongPre |-> 0, extracted |-> FALSE,
           panicked |-> FALSE, clonesPre |-> 0, allocsPre |-> 0, freesPre |-> 0,
           dropsPre |-> 0]
NoSummary == [valid |-> FALSE]

VARIABLES
    input,      \* [kind, payload, cap]: the container as constructed
    handles,    \* handle -> "none" | "owned" | "consumed" | "dropped"
    strong,     \* allocation -> Rc strong count
    heap,       \* allocation -> "unused" | "live" | "freed"
    frees,      \* allocation -> number of deallocations
    val,        \* object -> its value (0: no such object)
    drops,      \* object -> number of destructor runs
    clones,     \* number of Clone::clone calls
    vlen,       \* the Vec's len field
    call,       \* the take in progress or last finished
    pc,         \* "idle" | "in_f" | "returning" | "unwinding" | "done"
    ret,        \* the value the closure holds / returns
    result,     \* the value the take returned to the caller
    fcalls,     \* handle -> number of closure invocations made for it
    ref,        \* summary of the reference run on the same input
    sum         \* summary of the last finished take

vars == <<input, handles, strong, heap, frees, val, drops, clones, vlen,
          call, pc, ret, result, fcalls, ref, sum>>

----------------------------------------------------------------------------
\* Helpers over the heap and the objects.

Objs(p) == [i \in 1..Len(p) |-> i]
Occurs(objs, o) == Cardinality({i \in DOMAIN objs : objs[i] = o})
Range(s) == {s[i] : i \in DOMAIN s}

\* Run the destructor of every object of objs.
DropAll(d, objs) == [o \in ObjIds |-> d[o] + Occurs(objs, o)]

FreeStatus(hp, a) == [hp EXCEPT ![a] = "freed"]
FreeCount(fr, a) == [fr EXCEPT ![a] = @ + 1]

Unused(hp) == {a \in AllocIds : hp[a] = "unused"}
FreshAlloc(hp) == CHOOSE a \in Unused(hp) : \A b \in Unused(hp) : a <= b
NoObj(v) == {o \in ObjIds : v[o] = 0}
FreshObj(v) == CHOOSE o \in NoObj(v) : \A q \in NoObj(v) : o <= q

Allocated == Cardinality({a \in AllocIds : heap[a] # "unused"})
Live(hp) == {a \in AllocIds : hp[a] = "live"}
Sum(f, S) ==
    LET RECURSIVE Acc(_)
        Acc(T) == IF T = {} THEN 0
                  ELSE LET x == CHOOSE y \in T : TRUE IN f[x] + Acc(T \ {x})
    IN Acc(S)
TotalFrees == Sum(frees, AllocIds)
TotalDrops == Sum(drops, ObjIds)

----------------------------------------------------------------------------
\* Construction of a container of kind k around payload p.

Construct(k, p, c) ==
    /\ input' = [kind |-> k, payload |-> p, cap |-> c]
    /\ handles' = [h \in Handles |-> IF h = 1 THEN "owned" ELSE "none"]
    /\ strong' = [a \in AllocIds |-> IF a = 1 /\ k = "Rc" THEN 1 ELSE 0]
    /\ heap' = [a \in AllocIds |-> IF a = 1 /\ HasStorage(k, p, c) THEN "live" ELSE "unused"]
    /\ frees' = [a \in AllocIds |-> 0]
    /\ val' = [o \in ObjIds |-> IF o <= Len(p) THEN p[o] ELSE 0]
    /\ drops' = [o \in ObjIds |-> 0]
    /\ clones' = 0
    /\ vlen' = IF k = "Vec" THEN Len(p) ELSE 0
    /\ call' = NoCall
    /\ pc' = "idle"
    /\ ret' = NoValue
    /\ result' = NoResult
    /\ fcalls' = [h \in Handles |-> 0]
    /\ sum' = NoSummary

Init ==
    \E k \in Kinds : \E p \in Payloads(k) : \E c \in Caps(k, p) :
        /\ input = [kind |-> k, payload |-> p, cap |-> c]
        /\ handles = [h \in Handles |-> IF h = 1 THEN "owned" ELSE "none"]
        /\ strong = [a \in AllocIds |-> IF a = 1 /\ k = "Rc" THEN 1 ELSE 0]
        /\ heap = [a \in AllocIds |-> IF a = 1 /\ HasStorage(k, p, c) THEN "live" ELSE "unused"]
        /\ frees = [a \in AllocIds |-> 0]
        /\ val = [o \in ObjIds |-> IF o <= Len(p) THEN p[o] ELSE 0]
        /\ drops = [o \in ObjIds |-> 0]
        /\ clones = 0
        /\ vlen = IF k = "Vec" THEN Len(p) ELSE 0
        /\ call = NoCall
        /\ pc = "idle"
        /\ ret = NoValue
        /\ result = NoResult
        /\ fcalls = [h \in Handles |-> 0]
        /\ ref = NoSummary
        /\ sum = NoSummary

----------------------------------------------------------------------------
\* The entry of each take_unsized / deref_take_unsized impl, up to the
\* invocation of the closure.  Each yields the shell local the operation
\* holds while the closure runs:
\*   alloc       the allocation the shell frees when dropped (0: none)
\*   suppressed  whether the shell's type is a ManuallyDrop one, so that
\*               dropping it does not run the payload's destructor
\*   view        the objects behind the &mut ManuallyDrop<Target> given to f
\*   len         the value the Vec's len field holds while f runs
\*   cloned      whether a duplicate of the payload had to be made

\* Variant: the Box is handed to f as it is, not as a Box<ManuallyDrop<T>>.
BoxShell_Unsuppressed ==
    [alloc |-> IF heap[1] = "live" THEN 1 ELSE 0, suppressed |-> FALSE,
     view |-> Objs(input.payload), len |-> 0, cloned |-> FALSE]

\* Variant: into_raw without the from_raw that owns the allocation again.
BoxShell_NoFromRaw ==
    [alloc |-> 0, suppressed |-> TRUE,
     view |-> Objs(input.payload), len |-> 0, cloned |-> FALSE]

\* Box::into_raw(self) as *mut ManuallyDrop<T>; Box::from_raw(ptr).
BoxShell ==
    [alloc |-> IF heap[1] = "live" THEN 1 ELSE 0, suppressed |-> TRUE,
     view |-> Objs(input.payload), len |-> 0, cloned |-> FALSE]

\* Variant: the set_len(0) is left out.
VecShell_KeepLen ==
    [alloc |-> IF heap[1] = "live" THEN 1 ELSE 0, suppressed |-> FALSE,
     view |-> SubSeq(Objs(input.payload), 1, vlen), len |-> vlen, cloned |-> FALSE]

\* let len = self.len(); self.set_len(0); from_raw_parts_mut(ptr, len).
VecShell ==
    [alloc |-> IF heap[1] = "live" THEN 1 ELSE 0, suppressed |-> FALSE,
     view |-> SubSeq(Objs(input.payload), 1, vlen), len |-> 0, cloned |-> FALSE]

\* f(&mut self): the wrapper itself is the view.
WrapperShell ==
    [alloc |-> 0, suppressed |-> TRUE, view |-> Objs(input.payload),
     len |-> 0, cloned |-> FALSE]

\* Variant: Rc::get_mut_unchecked in place of Rc::make_mut -- never a clone.
RcShell_NoClone ==
    [alloc |-> 1, suppressed |-> TRUE, view |-> <<1>>, len |-> 0, cloned |-> FALSE]

\* Variant: the payload is cloned whatever the strong count.
RcShell_AlwaysClone ==
    [alloc |-> FreshAlloc(heap), suppressed |-> TRUE,
     view |-> <<FreshObj(val)>>, len |-> 0, cloned |-> TRUE]

\* Variant: the Rc is not reinterpreted as an Rc<ManuallyDrop<T>>.
RcShell_Unsuppressed ==
    IF strong[1] # 1
    THEN [alloc |-> FreshAlloc(heap), suppressed |-> FALSE,
          view |-> <<FreshObj(val)>>, len |-> 0, cloned |-> TRUE]
    ELSE [alloc |-> 1, suppressed |-> FALSE, view |-> <<1>>,
          len |-> 0, cloned |-> FALSE]

\* Rc::from_raw(Rc::into_raw(self) as *const _), then Rc::make_mut: with
\* other strong owners the payload is cloned into a fresh allocation, which
\* the shell then points at; alone, the shell keeps the original.
RcShell ==
    IF strong[1] # 1
    THEN [alloc |-> FreshAlloc(heap), suppressed |-> TRUE,
          view |-> <<FreshObj(val)>>, len |-> 0, cloned |-> TRUE]
    ELSE [alloc |-> 1, suppressed |-> TRUE, view |-> <<1>>,
          len |-> 0, cloned |-> FALSE]

\* Variant: f(&mut self) on the value itself, without ManuallyDrop::new.
PlainShell_NotWrapped ==
    [alloc |-> 0, suppressed |-> FALSE, view |-> Objs(input.payload),
     len |-> 0, cloned |-> FALSE]

\* let mut this = ManuallyDrop::new(self).
PlainShell ==
    [alloc |-> 0, suppressed |-> TRUE, view |-> Objs(input.payload),
     len |-> 0, cloned |-> FALSE]

\* DerefTake::deref_take_unsized, by impl.
DerefShell(k) ==
    CASE k \in {"Box", "BoxSlice"} -> BoxShell
      [] k = "Vec" -> VecShell
      [] k = "ManuallyDrop" -> WrapperShell
      [] k = "Rc" -> RcShell

\* Variant: every impl wraps self in a ManuallyDrop, as the plain one does.
TakeShell_Wrap(k) == PlainShell

\* Take::take_unsized, by impl: the plain value wraps itself, the others
\* delegate to deref_take_unsized.
TakeShell(k) ==
    CASE k = "T" -> PlainShell
      [] k = "ManuallyDrop" -> DerefShell("ManuallyDrop")
      [] k \in {"Box", "BoxSlice"} -> DerefShell(k)
      [] k = "Vec" -> DerefShell("Vec")

\* The closure deref_take passes to deref_take_unsized.
DerefTakeClosure == "into_owned"
\* The closure take_owned passes to take_unsized.
TakeOwnedClosure == "into_owned"
\* The closure take_sized passes to take_unsized.
TakeSizedClosure == "read"

\* Variant: the operation borrows the container (&mut self).
Consume_Keep(h) == handles

\* self is taken by value: the handle is gone once the operation is entered.
Consume(h) == [handles EXCEPT ![h] = "consumed"]

\* Entry of an operation on handle h: the shell sh is set up and the closure
\* (behaving as mode, moving k elements out when it stops half way) is invoked.
\* Operations do not nest (no take from inside a closure), and the caller has
\* let go of the value an earlier take returned.
Begin(h, api, mode, k, sh) ==
    /\ pc \in {"idle", "done"}
    /\ result.state # "held"
    /\ handles[h] = "owned"
    /\ sh.cloned => Unused(heap) # {} /\ NoObj(val) # {}
    /\ handles' = Consume(h)
    /\ vlen' = IF input.kind = "Vec" THEN sh.len ELSE vlen
    /\ IF sh.cloned
       THEN /\ val' = [val EXCEPT ![sh.view[1]] = val[1]]
            /\ clones' = clones + 1
            /\ heap' = [heap EXCEPT ![sh.alloc] = "live"]
            /\ strong' = [strong EXCEPT ![1] = @ - 1, ![sh.alloc] = 1]
       ELSE UNCHANGED <<val, clones, heap, strong>>
    /\ call' = [h |-> h, api |-> api, mode |-> mode, k |-> k, view |-> sh.view,
                alloc |-> sh.alloc, suppressed |-> sh.suppressed,
                strongPre |-> strong[1], extracted |-> FALSE, panicked |-> FALSE,
                clonesPre |-> clones, allocsPre |-> Allocated,
                freesPre |-> TotalFrees, dropsPre |-> TotalDrops]
    /\ fcalls' = [fcalls EXCEPT ![h] = @ + 1]
    /\ pc' = "in_f"
    /\ ret' = NoValue
    /\ result' = NoResult
    /\ sum' = NoSummary
    /\ UNCHANGED <<input, frees, drops, ref>>

\* The k a closure of the given mode can stop at.
Stops(mode) ==
    IF mode = "panic_partial" THEN 1..(Len(input.payload) - 1) ELSE {0}

deref_take(h) ==
    /\ input.kind \in DerefTakeKinds
    /\ Begin(h, "deref_take", DerefTakeClosure, 0, DerefShell(input.kind))

deref_take_unsized(h, mode) ==
    /\ input.kind \in DerefTakeKinds
    /\ \E k \in Stops(mode) :
        Begin(h, "deref_take_unsized", mode, k, DerefShell(input.kind))

take_sized(h) ==
    /\ input.kind \in TakeSizedKinds
    /\ Begin(h, "take_sized", TakeSizedClosure, 0, TakeShell(input.kind))

take_owned(h) ==
    /\ input.kind \in TakeKinds
    /\ Begin(h, "take_owned", TakeOwnedClosure, 0, TakeShell(input.kind))

take_unsized(h, mode) ==
    /\ input.kind \in TakeKinds
    /\ \E k \in Stops(mode) :
        Begin(h, "take_unsized", mode, k, TakeShell(input.kind))

----------------------------------------------------------------------------
\* The closure.

\* IntoOwned for T: (this as *const Self).read() -- the value itself, no
\* allocation.  Also the closure of take_sized.
ReadOut(view) == [has |-> TRUE, objs |-> view, buf |-> 0]

\* Variant: one element short (copy and set_len of len - 1).
SliceIntoOwned_Short(view, n) ==
    [has |-> TRUE, objs |-> SubSeq(view, 1, n - 1),
     buf |-> IF n > 0 THEN FreshAlloc(heap) ELSE 0]

\* IntoOwned for [T]: Vec::with_capacity(len) (allocates unless len = 0),
\* copy_nonoverlapping of len elements, set_len(len).
SliceIntoOwned(view, n) ==
    [has |-> TRUE, objs |-> SubSeq(view, 1, n),
     buf |-> IF n > 0 THEN FreshAlloc(heap) ELSE 0]

\* What the closure has in hand once it has moved the payload out.
Extracted ==
    CASE call.mode = "read" -> ReadOut(call.view)
      [] call.mode = "panic_partial" -> SliceIntoOwned(call.view, call.k)
      [] OTHER -> IF IsSlice(input.kind)
                  THEN SliceIntoOwned(call.view, Len(call.view))
                  ELSE ReadOut(call.view)

\* The closure moves the payload (or, stopping half way, part of it) out.
FExtract ==
    /\ pc = "in_f"
    /\ ~call.extracted
    /\ call.mode \in {"into_owned", "read", "panic_partial", "panic_after"}
    /\ Extracted.buf # 0 => Unused(heap) # {}
    /\ ret' = Extracted
    /\ heap' = IF Extracted.buf # 0 THEN [heap EXCEPT ![Extracted.buf] = "live"] ELSE heap
    /\ call' = [call EXCEPT !.extracted = TRUE]
    /\ UNCHANGED <<input, handles, strong, frees, val, drops, clones, vlen,
                   pc, result, fcalls, ref, sum>>

\* The closure returns: the moved-out value, or nothing when it did nothing.
FReturn ==
    /\ pc = "in_f"
    /\ \/ call.mode \in {"into_owned", "read"} /\ call.extracted
       \/ call.mode = "noop"
    /\ pc' = "returning"
    /\ UNCHANGED <<input, handles, strong, heap, frees, val, drops, clones, vlen,
                   call, ret, result, fcalls, ref, sum>>

\* The closure panics; unwinding drops what it had moved out so far.
FPanic ==
    /\ pc = "in_f"
    /\ \/ call.mode = "panic_before"
       \/ call.mode \in {"panic_partial", "panic_after"} /\ call.extracted
    /\ drops' = DropAll(drops, ret.objs)
    /\ heap' = IF ret.buf # 0 THEN FreeStatus(heap, ret.buf) ELSE heap
    /\ frees' = IF ret.buf # 0 THEN FreeCount(frees, ret.buf) ELSE frees
    /\ ret' = NoValue
    /\ call' = [call EXCEPT !.panicked = TRUE]
    /\ pc' = "unwinding"
    /\ UNCHANGED <<input, handles, strong, val, clones, vlen, result, fcalls, ref, sum>>

----------------------------------------------------------------------------
\* The end of the operation's scope: the shell local is dropped, on return
\* and on unwinding alike.

\* The objects whose destructor the shell's own drop runs.
ShellDrops ==
    CASE input.kind = "Vec" -> SubSeq(Objs(input.payload), 1, vlen)
      [] input.kind = "Rc" ->
            IF strong[call.alloc] = 1 /\ ~call.suppressed THEN call.view ELSE <<>>
      [] OTHER -> IF call.suppressed THEN <<>> ELSE call.view

\* Whether the shell's drop releases its allocation.
ShellFrees ==
    /\ call.alloc # 0
    /\ input.kind = "Rc" => strong[call.alloc] = 1

\* What the finished take did, for comparison between operations.
Summary(dr, hp, fr) ==
    [valid |-> TRUE, api |-> call.api, mode |-> call.mode, k |-> call.k,
     strongPre |-> call.strongPre,
     panicked |-> call.panicked,
     returned |-> ret.has,
     retVals |-> [i \in DOMAIN ret.objs |-> val[ret.objs[i]]],
     retOrig |-> ret.objs = SubSeq(Objs(input.payload), 1, Len(ret.objs)),
     retBuf |-> ret.buf # 0,
     drops |-> Sum(dr, ObjIds) - call.dropsPre,
     clones |-> clones - call.clonesPre,
     allocs |-> Allocated - call.allocsPre,
     frees |-> Sum(fr, AllocIds) - call.freesPre,
     live |-> Cardinality(Live(hp)),
     vlen |-> vlen]

ShellCleanup ==
    /\ pc \in {"returning", "unwinding"}
    /\ drops' = DropAll(drops, ShellDrops)
    /\ heap' = IF ShellFrees THEN FreeStatus(heap, call.alloc) ELSE heap
    /\ frees' = IF ShellFrees THEN FreeCount(frees, call.alloc) ELSE frees
    /\ strong' = IF input.kind = "Rc"
                 THEN [strong EXCEPT ![call.alloc] = @ - 1] ELSE strong
    /\ result' = IF ret.has THEN [state |-> "held", objs |-> ret.objs, buf |-> ret.buf]
                 ELSE NoResult
    /\ sum' = Summary(drops', heap', frees')
    /\ pc' = "done"
    /\ UNCHANGED <<input, handles, val, clones, vlen, call, ret, fcalls, ref>>

----------------------------------------------------------------------------
\* The caller's side.

\* The caller drops the value the take returned.
DropResult ==
    /\ pc = "done"
    /\ result.state = "held"
    /\ drops' = DropAll(drops, result.objs)
    /\ heap' = IF result.buf # 0 THEN FreeStatus(heap, result.buf) ELSE heap
    /\ frees' = IF result.buf # 0 THEN FreeCount(frees, result.buf) ELSE frees
    /\ result' = [result EXCEPT !.state = "dropped"]
    /\ UNCHANGED <<input, handles, strong, val, clones, vlen, call, pc, ret,
                   fcalls, ref, sum>>

\* Rc::clone(&rc): one more owner of the original allocation.
RcClone(h) ==
    /\ pc \in {"idle", "done"}
    /\ input.kind = "Rc"
    /\ handles[h] = "none"
    /\ \A g \in Handles : g < h => handles[g] # "none"
    /\ \E g \in Handles : handles[g] = "owned"
    /\ handles' = [handles EXCEPT ![h] = "owned"]
    /\ strong' = [strong EXCEPT ![1] = @ + 1]
    /\ UNCHANGED <<input, heap, frees, val, drops, clones, vlen, call, pc, ret,
                   result, fcalls, ref, sum>>

\* drop(rc): an owner goes away; the last one destroys the payload and
\* releases the allocation.
RcDrop(h) ==
    /\ pc \in {"idle", "done"}
    /\ input.kind = "Rc"
    /\ handles[h] = "owned"
    /\ handles' = [handles EXCEPT ![h] = "dropped"]
    /\ strong' = [strong EXCEPT ![1] = @ - 1]
    /\ drops' = IF strong[1] = 1 THEN DropAll(drops, <<1>>) ELSE drops
    /\ heap' = IF strong[1] = 1 THEN FreeStatus(heap, 1) ELSE heap
    /\ frees' = IF strong[1] = 1 THEN FreeCount(frees, 1) ELSE frees
    /\ UNCHANGED <<input, val, clones, vlen, call, pc, ret, result, fcalls, ref, sum>>

\* The same container is built again, to be taken from by another operation;
\* the finished deref_take_unsized is kept as the reference.
Again ==
    /\ pc = "done"
    /\ sum.valid
    /\ sum.api = "deref_take_unsized"
    /\ ref' = sum
    /\ Construct(input.kind, input.payload, input.cap)

Next ==
    \/ \E h \in Handles : deref_take(h)
    \/ \E h \in Handles : \E m \in CallerModes : deref_take_unsized(h, m)
    \/ \E h \in Handles : take_sized(h)
    \/ \E h \in Handles : take_owned(h)
    \/ \E h \in Handles : \E m \in CallerModes : take_unsized(h, m)
    \/ FExtract
    \/ FReturn
    \/ FPanic
    \/ ShellCleanup
    \/ DropResult
    \/ \E h \in Handles : RcClone(h)
    \/ \E h \in Handles : RcDrop(h)
    \/ Again

Spec == Init /\ [][Next]_vars

----------------------------------------------------------------------------
\* Properties.

Orig == Objs(input.payload)
SoleOwner == input.kind # "Rc" \/ call.strongPre = 1
Storage == HasStorage(input.kind, input.payload, input.cap)
InCall == pc \in {"in_f", "returning", "unwinding"}
\* The destructor runs the closure's own unwinding accounts for.
UnwindDrops ==
    CASE call.mode = "panic_after" -> Len(call.view)
      [] call.mode = "panic_partial" -> call.k
      [] OTHER -> 0

\* C1: for a Box, a boxed slice, a Vec, a ManuallyDrop and an Rc with one
\* owner, when deref_take has returned (the shell already dropped) no payload
\* element has been destroyed, and once the returned value is dropped every
\* payload element has been destroyed exactly once.
C1_NoDoubleDestruction ==
    (pc = "done" /\ call.api = "deref_take" /\ SoleOwner) =>
        /\ result.state \in {"held", "dropped"}
        /\ result.state = "held" => \A o \in Range(Orig) : drops[o] = 0
        /\ result.state = "dropped" => \A o \in Range(Orig) : drops[o] = 1

C1_Witness ==
    /\ pc = "done" /\ call.api = "deref_take" /\ input.kind = "Vec"
    /\ Len(input.payload) = MaxLen /\ result.state = "dropped"
    /\ \A o \in Range(Orig) : drops[o] = 1

\* C2: a take through one of several owners of an Rc clones the payload before
\* the closure is invoked and hands it the clone; the original keeps its
\* content, is alive as long as an owner is left, and is destroyed (and its
\* allocation released) exactly once, when the last owner is dropped.
C2_SharedTake ==
    (input.kind = "Rc" /\ call.h # 0 /\ call.strongPre >= 2) =>
        /\ clones = call.clonesPre + 1
        /\ call.view # <<1>> /\ call.alloc # 1
        /\ val[call.view[1]] = input.payload[1]
        /\ val[1] = input.payload[1]
        /\ result.state # "none" => result.objs = call.view
        /\ drops[1] = IF strong[1] = 0 THEN 1 ELSE 0
        /\ heap[1] = IF strong[1] = 0 THEN "freed" ELSE "live"
        /\ frees[1] = IF strong[1] = 0 THEN 1 ELSE 0

C2_Witness ==
    /\ input.kind = "Rc" /\ call.api = "deref_take" /\ call.strongPre = 2
    /\ pc = "done" /\ result.state = "held"
    /\ strong[1] = 0 /\ drops[1] = 1

\* C3: a take through the only owner of an Rc clones nothing and returns the
\* original payload, not destroyed when the take returns and destroyed once
\* when the result is dropped.
C3_UniqueNoClone ==
    (input.kind = "Rc" /\ call.h # 0 /\ call.strongPre = 1) =>
        /\ clones = call.clonesPre
        /\ call.view = <<1>>
        /\ (pc = "done" /\ call.api = "deref_take") =>
              /\ result.state \in {"held", "dropped"}
              /\ result.objs = <<1>>
              /\ drops[1] = IF result.state = "dropped" THEN 1 ELSE 0

C3_Witness ==
    /\ input.kind = "Rc" /\ call.api = "deref_take" /\ call.strongPre = 1
    /\ pc = "done" /\ result.state = "dropped" /\ drops[1] = 1 /\ clones = 0

\* C4: deref_take of a Vec of N elements returns a Vec of the same N elements
\* in the same order, and the source Vec, dropped with length 0, destroys none.
C4_VecComplete ==
    (pc = "done" /\ input.kind = "Vec" /\ call.api = "deref_take") =>
        /\ result.state \in {"held", "dropped"}
        /\ Len(result.objs) = Len(input.payload)
        /\ result.objs = Orig
        /\ [i \in DOMAIN result.objs |-> val[result.objs[i]]] = input.payload
        /\ vlen = 0
        /\ sum.drops = 0

C4_Witness ==
    /\ pc = "done" /\ input.kind = "Vec" /\ call.api = "deref_take"
    /\ Len(input.payload) = 2 /\ input.payload[1] # input.payload[2]
    /\ result.state = "held" /\ Len(result.objs) = 2

\* C5: while the closure runs the shell is already unable to destroy the
\* payload (the Vec's length is 0, the Box, Rc or plain value is held as a
\* ManuallyDrop), and when the closure panics -- before, while or after
\* moving the payload out -- no element is ever destroyed twice.
C5_SuppressedBeforeF ==
    /\ pc = "in_f" => IF input.kind = "Vec" THEN vlen = 0 ELSE call.suppressed
    /\ call.panicked => \A o \in ObjIds : drops[o] <= 1

C5_Witness ==
    /\ pc = "done" /\ call.panicked /\ call.mode = "panic_after"
    /\ input.kind = "Box" /\ drops[1] = 1 /\ heap[1] = "freed"

\* C6: for a Box, a boxed slice, a Vec and an Rc with one owner, the
\* container's allocation is live as long as the closure has not ended and
\* the operation not returned, and is released exactly once by the time the
\* operation is over, also when the closure panicked; the release destroys
\* nothing (only the closure's own unwinding destroys what it had moved out).
C6_StorageFreedAfterF ==
    (call.api \in {"deref_take_unsized", "take_unsized"} /\ Storage /\ SoleOwner) =>
        /\ InCall => heap[1] = "live" /\ frees[1] = 0
        /\ pc = "done" => /\ heap[1] = "freed" /\ frees[1] = 1
                          /\ sum.drops = UnwindDrops

C6_Witness ==
    /\ pc = "done" /\ call.api = "deref_take_unsized" /\ call.panicked
    /\ input.kind = "Vec" /\ Len(input.payload) = MaxLen
    /\ heap[1] = "freed" /\ frees[1] = 1

\* Some take operation on handle h.
TakeOn(h) ==
    \/ deref_take(h)
    \/ \E m \in CallerModes : deref_take_unsized(h, m)
    \/ take_sized(h)
    \/ take_owned(h)
    \/ \E m \in CallerModes : take_unsized(h, m)

\* C7: the closure is invoked at most once for a container handle, and no
\* take operation is enabled on a handle that was taken from.
C7_AtMostOnce ==
    \A h \in Handles :
        /\ fcalls[h] <= 1
        /\ fcalls[h] = 1 => ~ENABLED TakeOn(h)

C7_Witness ==
    /\ pc = "done" /\ result.state = "dropped"
    /\ handles[1] = "consumed" /\ fcalls[1] = 1
    /\ input.kind = "Rc" /\ handles[2] = "owned"

\* C8: a take from a ManuallyDrop<T>, and take_sized of a plain value,
\* return the value itself, allocate nothing, release nothing and destroy
\* nothing.
C8_WrapperNoHeap ==
    (/\ call.h # 0
     /\ \/ input.kind = "ManuallyDrop" /\ call.api \in {"deref_take", "take_sized", "take_owned"}
        \/ input.kind = "T" /\ call.api = "take_sized") =>
        /\ Allocated = call.allocsPre /\ TotalFrees = call.freesPre
        /\ Live(heap) = {}
        /\ result.state # "dropped" => TotalDrops = call.dropsPre
        /\ pc = "done" => /\ result.state \in {"held", "dropped"}
                          /\ result.objs = <<1>>
                          /\ val[1] = input.payload[1]

C8_Witness ==
    /\ pc = "done" /\ input.kind = "T" /\ call.api = "take_sized"
    /\ result.state = "held" /\ result.objs = <<1>> /\ drops[1] = 0

\* What a finished take did, without the name of the operation.
Outcome(s) ==
    [panicked |-> s.panicked, returned |-> s.returned, retVals |-> s.retVals,
     retOrig |-> s.retOrig, retBuf |-> s.retBuf, drops |-> s.drops,
     clones |-> s.clones, allocs |-> s.allocs, frees |-> s.frees,
     live |-> s.live, vlen |-> s.vlen]

\* C9: on the same container, deref_take does what deref_take_unsized does
\* with the into_owned closure, and for a ManuallyDrop, a Box, a boxed slice
\* and a Vec, Take's take_unsized / take_owned do what DerefTake's
\* deref_take_unsized / deref_take do: same result, destructor runs, clones,
\* allocations and deallocations.
C9_SameAsTakeWith ==
    (sum.valid /\ ref.valid /\ sum.strongPre = ref.strongPre) =>
        /\ (sum.api = "deref_take" /\ ref.mode = "into_owned")
              => Outcome(sum) = Outcome(ref)
        /\ (sum.api = "take_owned" /\ ref.mode = "into_owned" /\ input.kind # "T")
              => Outcome(sum) = Outcome(ref)
        /\ (sum.api = "take_unsized" /\ sum.mode = ref.mode /\ sum.k = ref.k
            /\ input.kind # "T")
              => Outcome(sum) = Outcome(ref)

C9_Witness ==
    /\ sum.valid /\ ref.valid /\ sum.api = "take_owned" /\ ref.mode = "into_owned"
    /\ input.kind = "Vec" /\ Len(input.payload) = MaxLen
    /\ Outcome(sum) = Outcome(ref) /\ sum.returned /\ sum.allocs = 1

\* C10: when the closure returns or panics without having moved the payload
\* out, then for a plain value, a Box, a boxed slice, a Vec and an Rc with one
\* owner no payload element is ever destroyed: the shell's allocation is
\* released, nothing is returned and no handle is left to destroy the payload.
C10_NotExtractedLeaks ==
    (/\ pc = "done" /\ call.mode \in {"noop", "panic_before"}
     /\ input.kind \in {"T", "Box", "BoxSlice", "Vec", "Rc"} /\ SoleOwner) =>
        /\ \A o \in Range(Orig) : drops[o] = 0
        /\ Storage => heap[1] = "freed"
        /\ result.state = "none"
        /\ \A h \in Handles : handles[h] # "owned"

C10_Witness ==
    /\ pc = "done" /\ call.mode = "noop" /\ call.api = "take_unsized"
    /\ input.kind = "BoxSlice" /\ Len(input.payload) = MaxLen
    /\ \A o \in Range(Orig) : drops[o] = 0 /\ heap[1] = "freed"

TypeOK ==
    /\ pc \in {"idle", "in_f", "returning", "unwinding", "done"}
    /\ input.kind \in Kinds
    /\ \A a \in AllocIds : heap[a] \in {"unused", "live", "freed"}
    /\ \A h \in Handles : handles[h] \in {"none", "owned", "consumed", "dropped"}
====
